---- MODULE Spec2Model ----
(***************************************************************************)
(* A model of the storefront front-end: the price formatter, the IPFS URL  *)
(* resolver, the Buy page, and the Store and My Records collection views.  *)
(*                                                                         *)
(* Text is modelled as a sequence of one-character strings, so that        *)
(* parsing, padding, trimming and replacing are computed, never assumed.   *)
(* An arbitrary-precision integer (BigInt) is a record                     *)
(*   [neg |-> BOOLEAN, mag |-> little-endian sequence of decimal digits]   *)
(* with no high zero digit; zero is [neg |-> FALSE, mag |-> <<>>].         *)
(***************************************************************************)
EXTENDS Integers, Sequences, FiniteSets, TLC

VARIABLES
    \* formatETHPrice
    priceStr, formatted,
    \* resolveIpfsUrl
    ipfsUri, hostname, resolved,
    \* BuyRecordPage
    recordEmitData, contractRead, isConnected, isMintPending, mintCalls,
    \* the page that is visited, whether it is mounted, what the indexer holds
    page, mounted, indexerNodes,
    \* Store
    storeQuery,
    \* MyRecords
    userAddress, deployedRecords, isFetching, fetchError, ownedTokensByContract,
    \* cancelledFetches: some torn-down run of effect 1 has its fetch in flight
    fetchEffectPending, liveFetch, cancelledFetches, readContracts, mapEffectPending,
    \* RecordBox: its props, how far its life has got, and useRecordImage
    cardProps, cardStage, uriRead, imageUrl, isLoadingImage, imageError,
    imageEffectPending, imageRuns,
    \* OwnerRecordPage: its route parameters, how far its life has got, its state
    ownerParams, ownerStage, tokenUriRead, metadata, isLoadingMeta, metaError,
    metaEffectPending, metaRuns

fmtVars == <<priceStr, formatted>>
ipfsVars == <<ipfsUri, hostname, resolved>>
buyVars == <<recordEmitData, contractRead, isConnected, isMintPending, mintCalls>>
storeVars == <<storeQuery>>
myVars == <<userAddress, deployedRecords, isFetching, fetchError, ownedTokensByContract,
            fetchEffectPending, liveFetch, cancelledFetches, readContracts, mapEffectPending>>
collectionVars == <<page, mounted, indexerNodes, storeVars, myVars>>
cardVars == <<cardProps, cardStage, uriRead, imageUrl, isLoadingImage, imageError,
              imageEffectPending, imageRuns>>
ownerVars == <<ownerParams, ownerStage, tokenUriRead, metadata, isLoadingMeta, metaError,
               metaEffectPending, metaRuns>>
viewVars == <<cardVars, ownerVars>>
vars == <<priceStr, formatted, ipfsUri, hostname, resolved,
          recordEmitData, contractRead, isConnected, isMintPending, mintCalls,
          page, mounted, indexerNodes, storeQuery,
          userAddress, deployedRecords, isFetching, fetchError, ownedTokensByContract,
          fetchEffectPending, liveFetch, cancelledFetches, readContracts, mapEffectPending,
          cardProps, cardStage, uriRead, imageUrl, isLoadingImage, imageError,
          imageEffectPending, imageRuns,
          ownerParams, ownerStage, tokenUriRead, metadata, isLoadingMeta, metaError,
          metaEffectPending, metaRuns>>

\* An optional value: None before it is set (undefined, null), Some(v) after.
None == <<>>
Some(v) == <<v>>
ValueOf(opt) == opt[1]

\* if (!cancelled) set...(new): a torn-down run writes nothing.
WriteAlways(cancelled, new, old) == new
WriteUnless(cancelled, new, old) == IF cancelled THEN old ELSE new

-----------------------------------------------------------------------------
(* Bounds of the model *)

\* Longest run of digits before and after the block of zeros of a numeral.
MaxAffix == 2
\* Longest block of zeros inside a numeral.
MaxZeros == 18
\* Longest input that is drawn from the free alphabet.
MaxJunk == 3
\* Most chunks an IPFS URI is built from.
MaxChunks == 3
\* Largest supply cap of a record contract; the minted count may pass it by one.
MaxSupply == 1
\* Most mint submissions in one behaviour.
MaxMints == 2
\* Most deployments the indexer returns.
MaxDeployments == 2

\* Longest list of songs in a metadata document.
MaxSongs == 3

-----------------------------------------------------------------------------
(* Text helpers *)

RECURSIVE Flatten(_)
Flatten(ss) == IF ss = <<>> THEN <<>> ELSE Head(ss) \o Flatten(Tail(ss))

RECURSIVE Repeat(_, _)
Repeat(c, n) == IF n <= 0 THEN <<>> ELSE <<c>> \o Repeat(c, n - 1)

Reverse(s) == [i \in 1..Len(s) |-> s[Len(s) + 1 - i]]

\* All sequences over S of length at most n.
SeqsUpTo(S, n) == UNION {[1..k -> S] : k \in 0..n}

StartsWith(s, p) == Len(s) >= Len(p) /\ SubSeq(s, 1, Len(p)) = p
EndsWith(s, p) == Len(s) >= Len(p) /\ SubSeq(s, Len(s) - Len(p) + 1, Len(s)) = p

DecDigits == <<"0", "1", "2", "3", "4", "5", "6", "7", "8", "9">>
HexLetters == <<"a", "b", "c", "d", "e", "f">>
HexCapitals == <<"A", "B", "C", "D", "E", "F">>

IsDecDigit(c) == \E d \in 1..10 : DecDigits[d] = c
IsHexDigit(c) ==
    \/ IsDecDigit(c)
    \/ \E d \in 1..6 : HexLetters[d] = c \/ HexCapitals[d] = c

DigitValue(c) ==
    IF IsDecDigit(c) THEN (CHOOSE d \in 1..10 : DecDigits[d] = c) - 1
    ELSE 9 + (CHOOSE d \in 1..6 : HexLetters[d] = c \/ HexCapitals[d] = c)

DigitChar(d) == DecDigits[d + 1]

IsWhiteSpace(c) == c \in {" ", "\t", "\n"}

RECURSIVE TrimStart(_)
TrimStart(s) ==
    IF s # <<>> /\ IsWhiteSpace(Head(s)) THEN TrimStart(Tail(s)) ELSE s

\* String.prototype.trim, and the StrWhiteSpace a numeric string may carry.
TrimString(s) == Reverse(TrimStart(Reverse(TrimStart(s))))

\* String.prototype.padStart(n, c) for a one-character filler.
PadStart(s, n, c) == Repeat(c, n - Len(s)) \o s

RECURSIVE StripTrailing(_, _)
StripTrailing(s, c) ==
    IF s # <<>> /\ s[Len(s)] = c
    THEN StripTrailing(SubSeq(s, 1, Len(s) - 1), c)
    ELSE s

RECURSIVE StripLeading(_, _)
StripLeading(s, c) ==
    IF s # <<>> /\ Head(s) = c THEN StripLeading(Tail(s), c) ELSE s

-----------------------------------------------------------------------------
(* BigInt *)

\* The exponent of the divisor BigInt(10 ** 18).
DECIMALS == 18

BigZero == [neg |-> FALSE, mag |-> <<>>]

\* Drops the high zero digits of a little-endian magnitude.
NormalizeMag(le) == StripTrailing(le, 0)

MkBigInt(neg, le) ==
    LET m == NormalizeMag(le)
    IN  [neg |-> neg /\ m # <<>>, mag |-> m]

\* The little-endian digits of le * b + carry.
RECURSIVE MulAdd(_, _, _)
MulAdd(le, b, carry) ==
    IF le = <<>>
    THEN IF carry = 0 THEN <<>>
         ELSE <<carry % 10>> \o MulAdd(<<>>, b, carry \div 10)
    ELSE LET v == Head(le) * b + carry
         IN  <<v % 10>> \o MulAdd(Tail(le), b, v \div 10)

\* The mathematical value of a run of digits in the given radix.
RECURSIVE DigitsValue(_, _, _)
DigitsValue(s, radix, acc) ==
    IF s = <<>> THEN acc
    ELSE DigitsValue(Tail(s), radix, MulAdd(acc, radix, DigitValue(Head(s))))

AllDigits(s, radix) ==
    /\ s # <<>>
    /\ \A i \in 1..Len(s) : IsHexDigit(s[i]) /\ DigitValue(s[i]) < radix

RadixOfPrefix(c) ==
    IF c \in {"x", "X"} THEN 16
    ELSE IF c \in {"o", "O"} THEN 8
    ELSE IF c \in {"b", "B"} THEN 2
    ELSE 0

\* BigInt(string): StringToBigInt; ok = FALSE stands for the SyntaxError.
StringToBigInt(s) ==
    LET t == TrimString(s)
        Thrown == [ok |-> FALSE, value |-> BigZero]
    IN  IF t = <<>> THEN [ok |-> TRUE, value |-> BigZero]
        ELSE IF Len(t) >= 2 /\ t[1] = "0" /\ RadixOfPrefix(t[2]) # 0
        THEN LET radix == RadixOfPrefix(t[2])
                 body == SubSeq(t, 3, Len(t))
             IN  IF AllDigits(body, radix)
                 THEN [ok |-> TRUE,
                       value |-> MkBigInt(FALSE, DigitsValue(body, radix, <<>>))]
                 ELSE Thrown
        ELSE LET signed == t[1] \in {"+", "-"}
                 body == IF signed THEN Tail(t) ELSE t
             IN  IF AllDigits(body, 10)
                 THEN [ok |-> TRUE,
                       value |-> MkBigInt(t[1] = "-", DigitsValue(body, 10, <<>>))]
                 ELSE Thrown

\* b / 10^k on BigInt: the quotient truncated toward zero.
BigIntDivPow10(b, k) ==
    MkBigInt(b.neg, IF Len(b.mag) <= k THEN <<>> ELSE SubSeq(b.mag, k + 1, Len(b.mag)))

\* b % 10^k on BigInt: the remainder, with the sign of the dividend.
BigIntModPow10(b, k) ==
    MkBigInt(b.neg, IF Len(b.mag) <= k THEN b.mag ELSE SubSeq(b.mag, 1, k))

\* BigInt.prototype.toString()
BigIntToString(b) ==
    IF b.mag = <<>> THEN <<"0">>
    ELSE (IF b.neg THEN <<"-">> ELSE <<>>)
         \o [i \in 1..Len(b.mag) |-> DigitChar(b.mag[Len(b.mag) + 1 - i])]

-----------------------------------------------------------------------------
(* formatETHPrice *)

ETH_UNIT == <<" ", "E", "T", "H">>
ZERO_FRACTION == <<"0", "0", "0", "0">>

\* fractionStr.replace(/0+$/, "")
TrimFraction(fractionStr) == StripTrailing(fractionStr, "0")

\* A slip: the fraction is printed without its leading zeros.
FractionStrUnpadded(fraction) == BigIntToString(fraction)

\* fraction.toString().padStart(18, "0")
FractionStr(fraction) == PadStart(BigIntToString(fraction), DECIMALS, "0")

\* A slip: the empty fraction is printed as it is.
FormatResultNoPlaceholder(wholeStr, trimmedFraction) ==
    wholeStr \o <<".">> \o trimmedFraction \o ETH_UNIT

\* The return statement of the try block.
FormatResult(wholeStr, trimmedFraction) ==
    IF trimmedFraction # <<>>
    THEN wholeStr \o <<".">> \o trimmedFraction \o ETH_UNIT
    ELSE wholeStr \o <<".">> \o ZERO_FRACTION \o ETH_UNIT

\* The try block: threw = TRUE when BigInt(priceStr) throws.
FormatTry(s) ==
    LET parsed == StringToBigInt(s)
        whole == BigIntDivPow10(parsed.value, DECIMALS)
        fraction == BigIntModPow10(parsed.value, DECIMALS)
    IN  IF ~parsed.ok THEN [threw |-> TRUE, value |-> <<>>]
        ELSE [threw |-> FALSE,
              value |-> FormatResult(BigIntToString(whole),
                                     TrimFraction(FractionStr(fraction)))]

\* The whole function: the catch clause returns the input.
formatETHPrice(s) ==
    LET r == FormatTry(s)
    IN  IF r.threw THEN [threw |-> FALSE, value |-> s] ELSE r

\* Numerals: a few digits, a block of zeros, a few digits.
HeadDigits == {"0", "1", "9"}
TailDigits == {"0", "5"}
Numerals ==
    {h \o Repeat("0", k) \o t :
        h \in SeqsUpTo(HeadDigits, MaxAffix),
        k \in 0..MaxZeros,
        t \in SeqsUpTo(TailDigits, MaxAffix)}

\* Free text: digits, blanks, signs, a decimal point, a letter, a radix mark.
JunkAlphabet == {"1", "0", " ", ".", "-", "x", "a"}
PriceInputs == Numerals \cup SeqsUpTo(JunkAlphabet, MaxJunk)

FormatStart ==
    /\ priceStr \in PriceInputs
    /\ formatted = None

\* A call formatETHPrice(priceStr), as the Buy page makes on render.
CallFormat ==
    /\ formatted = None
    /\ formatted' = Some(formatETHPrice(priceStr))
    /\ UNCHANGED priceStr

FormatNext == CallFormat /\ UNCHANGED <<ipfsVars, buyVars, collectionVars, viewVars>>

-----------------------------------------------------------------------------
(* resolveIpfsUrl *)

IPFS_SCHEME == <<"i", "p", "f", "s", ":", "/", "/">>
LOCAL_GATEWAY ==
    <<"h", "t", "t", "p", ":", "/", "/", "1", "2", "7", ".", "0", ".", "0", ".", "1", ":", "8", "0", "8", "0", "/", "i", "p", "f", "s", "/">>
PUBLIC_GATEWAY ==
    <<"h", "t", "t", "p", "s", ":", "/", "/", "i", "p", "f", "s", ".", "i", "o", "/", "i", "p", "f", "s", "/">>

\* The least index at which pat occurs in s, or 0.
IndexOf(s, pat) ==
    LET hits == {i \in 1..(Len(s) - Len(pat) + 1) : SubSeq(s, i, i + Len(pat) - 1) = pat}
    IN  IF hits = {} THEN 0 ELSE CHOOSE i \in hits : \A j \in hits : i <= j

\* A slip: every occurrence is replaced (replaceAll, or a /g pattern).
RECURSIVE ReplaceEvery(_, _, _)
ReplaceEvery(s, pat, rep) ==
    LET i == IndexOf(s, pat)
    IN  IF i = 0 THEN s
        ELSE SubSeq(s, 1, i - 1) \o rep
             \o ReplaceEvery(SubSeq(s, i + Len(pat), Len(s)), pat, rep)

\* String.prototype.replace(pat, rep) with a string pattern: the first
\* occurrence only.
ReplaceFirst(s, pat, rep) ==
    LET i == IndexOf(s, pat)
    IN  IF i = 0 THEN s
        ELSE SubSeq(s, 1, i - 1) \o rep \o SubSeq(s, i + Len(pat), Len(s))

resolveIpfsUrl(uri, host) ==
    LET cid == ReplaceFirst(uri, IPFS_SCHEME, <<>>)
    IN  IF host = "localhost" THEN LOCAL_GATEWAY \o cid ELSE PUBLIC_GATEWAY \o cid

UriChunks == {IPFS_SCHEME, <<"Q">>, <<"m">>, <<"/">>, <<"i">>}
UriInputs == {Flatten(cs) : cs \in SeqsUpTo(UriChunks, MaxChunks)}
Hostnames == {"localhost", "127.0.0.1", "records.example"}

IpfsStart ==
    /\ ipfsUri \in UriInputs
    /\ hostname \in Hostnames
    /\ resolved = None

\* A call resolveIpfsUrl(ipfsUri) on a page served from hostname.
CallResolve ==
    /\ resolved = None
    /\ resolved' = Some(resolveIpfsUrl(ipfsUri, hostname))
    /\ UNCHANGED <<ipfsUri, hostname>>

IpfsNext == CallResolve /\ UNCHANGED <<fmtVars, buyVars, collectionVars, viewVars>>

-----------------------------------------------------------------------------
(* BuyRecordPage *)

\* A field of the indexer's JSON node: absent, null, or a string.
Undefined == "undefined"
Null == "null"
FieldValues == {Undefined, Null, "text"}

\* What fetchRecordEmitData resolves to: nodes[0] ?? null.
EmitNodes == [name : FieldValues, artist : FieldValues, symbol : FieldValues]

\* useQuery: data stays undefined while loading and after a failed fetch.
EmitLoading == [isLoading |-> TRUE, data |-> None]
EmitSettled(data) == [isLoading |-> FALSE, data |-> data]

\* On-chain values: the price is a BigInt, supply and count are compared only.
MintPrices ==
    {MkBigInt(FALSE, Repeat(0, 18) \o <<1>>),
     MkBigInt(FALSE, Repeat(0, 17) \o <<5, 1>>)}
PreviewURIs == {<<>>, IPFS_SCHEME \o <<"Q">>}
ContractResults ==
    [mintPrice : MintPrices, supply : 0..MaxSupply, tokenCount : 0..(MaxSupply + 1),
     previewImageURI : PreviewURIs]
ErrorMessages == {"execution reverted", "network error"}

\* useReadContracts with allowFailure: false: all four values or none.
ReadLoading == [isLoading |-> TRUE, isError |-> FALSE, data |-> None, error |-> None]
ReadSuccess(data) ==
    [isLoading |-> FALSE, isError |-> FALSE, data |-> Some(data), error |-> None]
\* A failed read keeps the data of an earlier success, if any.
ReadError(prev, msg) ==
    [isLoading |-> FALSE, isError |-> TRUE, data |-> prev.data, error |-> Some(msg)]

\* previewImageURI ? resolveIpfsUrl(previewImageURI) : undefined
PreviewImageUrl(data) ==
    IF data.previewImageURI # <<>>
    THEN Some(resolveIpfsUrl(data.previewImageURI, hostname))
    ELSE None

\* useContractData: the four values, undefined until result.data is there.
useContractData ==
    LET has == contractRead.data # None
        data == ValueOf(contractRead.data)
    IN  [mintPrice |-> IF has THEN Some(data.mintPrice) ELSE None,
         supply |-> IF has THEN Some(data.supply) ELSE None,
         tokenCount |-> IF has THEN Some(data.tokenCount) ELSE None,
         previewImageUrl |-> IF has THEN PreviewImageUrl(data) ELSE None,
         isLoading |-> contractRead.isLoading,
         error |-> contractRead.error,
         isError |-> contractRead.isError]

\* String(mintPrice)
StringOfBigInt(b) == BigIntToString(b)

\* A slip: the button is disabled only when everything is minted.
MintButtonNeverWaiting(pending, soldOut, symbol) ==
    [disabled |-> soldOut, label |-> "Mint", symbol |-> symbol]

\* The mint button: disabled and relabelled while a signature is awaited.
MintButton(pending, soldOut, symbol) ==
    [disabled |-> pending \/ soldOut,
     label |-> IF pending THEN "Waiting for Signature..." ELSE "Mint",
     symbol |-> IF pending THEN None ELSE Some(symbol)]

\* A slip: the connection is looked at before the minted count.
MintAreaConnectionFirst(tokenCount, supply, connected) ==
    IF ~connected THEN "Please Connect A Wallet"
    ELSE IF tokenCount >= supply THEN "All Records Minted"
    ELSE "Mint"

\* The conditional under the text info.
MintArea(tokenCount, supply, connected) ==
    IF tokenCount >= supply THEN "All Records Minted"
    ELSE IF ~connected THEN "Please Connect A Wallet"
    ELSE "Mint"

\* What a render shows; fields that a branch does not render are None.
Blank ==
    [kind |-> "Loading", errorText |-> None, preview |-> None, name |-> None,
     artist |-> None, area |-> None, button |-> None, price |-> None]

\* A slip: the guard on the contract data forgets the preview image.
ContractDataMissingNoPreview(cd) ==
    \/ cd.isError
    \/ cd.mintPrice = None
    \/ cd.supply = None
    \/ cd.tokenCount = None

\* The second guard clause.
ContractDataMissing(cd) ==
    \/ cd.isError
    \/ cd.mintPrice = None
    \/ cd.supply = None
    \/ cd.tokenCount = None
    \/ cd.previewImageUrl = None

\* The first guard clause.
EmitDataMissing(q) ==
    \/ q.data = None
    \/ ValueOf(q.data).name = Undefined
    \/ ValueOf(q.data).artist = Undefined
    \/ ValueOf(q.data).symbol = Undefined

\* The render of BuyRecordPage.
BuyView ==
    LET cd == useContractData
    IN  IF recordEmitData.isLoading \/ cd.isLoading THEN Blank
        ELSE IF EmitDataMissing(recordEmitData)
        THEN [Blank EXCEPT !.kind = "NoListing"]
        ELSE IF ContractDataMissing(cd)
        THEN [Blank EXCEPT !.kind = "ContractError", !.errorText = cd.error]
        ELSE LET emit == ValueOf(recordEmitData.data)
                 tokenCount == ValueOf(cd.tokenCount)
                 supply == ValueOf(cd.supply)
                 area == MintArea(tokenCount, supply, isConnected)
                 shown == area = "Mint"
             IN  [kind |-> "Listing",
                  errorText |-> None,
                  preview |-> cd.previewImageUrl,
                  name |-> Some(emit.name),
                  artist |-> Some(emit.artist),
                  area |-> Some(area),
                  button |-> IF shown
                             THEN Some(MintButton(isMintPending, tokenCount >= supply,
                                                  emit.symbol))
                             ELSE None,
                  price |-> IF shown
                            THEN Some(formatETHPrice(StringOfBigInt(ValueOf(cd.mintPrice))).value)
                            ELSE None]

\* The arguments handleMint passes to writeContract.
MintRequest(cd) == [quantity |-> 1, value |-> cd.mintPrice]

BuyStart ==
    /\ recordEmitData = EmitLoading
    /\ contractRead = ReadLoading
    /\ isConnected \in BOOLEAN
    /\ isMintPending = FALSE
    /\ mintCalls = <<>>
    /\ hostname = "localhost"

\* The indexer lookup resolves to a node or to null.
EmitDataArrives ==
    /\ recordEmitData.isLoading
    /\ \/ \E node \in EmitNodes : recordEmitData' = EmitSettled(Some(node))
       \/ recordEmitData' = EmitSettled(None)
    /\ UNCHANGED <<contractRead, isConnected, isMintPending, mintCalls>>
    /\ UNCHANGED <<fmtVars, ipfsVars, collectionVars, viewVars>>

\* The four reads settle with values, at first or on a refetch.
ContractReadSucceeds ==
    /\ \E data \in ContractResults : contractRead' = ReadSuccess(data)
    /\ UNCHANGED <<recordEmitData, isConnected, isMintPending, mintCalls>>
    /\ UNCHANGED <<fmtVars, ipfsVars, collectionVars, viewVars>>

\* The reads fail, at first or on a refetch.
ContractReadFails ==
    /\ \E msg \in ErrorMessages : contractRead' = ReadError(contractRead, msg)
    /\ UNCHANGED <<recordEmitData, isConnected, isMintPending, mintCalls>>
    /\ UNCHANGED <<fmtVars, ipfsVars, collectionVars, viewVars>>

\* The wallet is connected or disconnected.
ConnectionChanges ==
    /\ isConnected' = ~isConnected
    /\ UNCHANGED <<recordEmitData, contractRead, isMintPending, mintCalls>>
    /\ UNCHANGED <<fmtVars, ipfsVars, collectionVars, viewVars>>

\* A click on the mint button, which a disabled button does not deliver:
\* handleMint calls writeContract, whose isPending is true until the wallet
\* answers.
HandleMint ==
    /\ BuyView.kind = "Listing"
    /\ BuyView.button # None
    /\ ~ValueOf(BuyView.button).disabled
    /\ Len(mintCalls) < MaxMints
    /\ mintCalls' = Append(mintCalls, MintRequest(useContractData))
    /\ isMintPending' = TRUE
    /\ UNCHANGED <<recordEmitData, contractRead, isConnected>>
    /\ UNCHANGED <<fmtVars, ipfsVars, collectionVars, viewVars>>

\* The wallet answers: the user signs (a hash comes back) or rejects.
SignatureWaitEnds ==
    /\ isMintPending
    /\ isMintPending' = FALSE
    /\ UNCHANGED <<recordEmitData, contractRead, isConnected, mintCalls>>
    /\ UNCHANGED <<fmtVars, ipfsVars, collectionVars, viewVars>>

BuyNext ==
    \/ EmitDataArrives
    \/ ContractReadSucceeds
    \/ ContractReadFails
    \/ ConnectionChanges
    \/ HandleMint
    \/ SignatureWaitEnds

-----------------------------------------------------------------------------
(* Addresses *)

(***************************************************************************)
(* An address string is modelled by the account it spells and the form it  *)
(* is written in:                                                          *)
(*   checksummed  0x + 40 hex digits in their EIP-55 case                  *)
(*   lowercase    0x + 40 hex digits, all letters in lower case            *)
(*   miscased     0x + 40 hex digits, mixed case that is not the EIP-55 one*)
(*   padded       a checksummed address between blanks                     *)
(*   malformed    text that is not 0x + 40 hex digits                      *)
(*   blank        text of blanks only                                      *)
(*   empty, null  "" and null                                              *)
(***************************************************************************)
Contracts == {"a", "b"}
AddressForms == {"checksummed", "lowercase", "miscased"}
Address(id, form) == [id |-> id, form |-> form]

\* The record fields the indexer may return.
RawRecords ==
    {Address("a", "checksummed"), Address("a", "miscased"),
     Address("b", "padded"), Address("b", "malformed"), Address("b", "null")}

\* String.prototype.trim
TrimAddress(raw) ==
    IF raw.form = "padded" THEN Address(raw.id, "checksummed")
    ELSE IF raw.form = "blank" THEN Address(raw.id, "empty")
    ELSE raw

\* viem's isAddress(t, {strict: false}): 0x and 40 hex digits, in any case.
IsAddressLoose(t) == t.form \in AddressForms

\* viem's isAddress(t): in mixed case the EIP-55 checksum must hold as well.
IsAddressStrict(t) == t.form \in {"checksummed", "lowercase"}

\* viem's getAddress(t): throws (ok = FALSE) unless isAddress(t, {strict:
\* false}); otherwise the address in its EIP-55 case.
getAddress(t) ==
    IF IsAddressLoose(t)
    THEN [ok |-> TRUE, value |-> Address(t.id, "checksummed")]
    ELSE [ok |-> FALSE, value |-> t]

\* String.prototype.toLowerCase on an address.
ToLowerCase(addr) ==
    IF addr.form \in AddressForms THEN Address(addr.id, "lowercase") ELSE addr

\* Trim + checksum; None if invalid.
normalizeAddress(raw) ==
    IF raw.form \in {"null", "empty"} THEN None
    ELSE LET t == TrimAddress(raw)
         IN  IF t.form = "empty" THEN None
             ELSE IF getAddress(t).ok THEN Some(getAddress(t).value)
             ELSE None

-----------------------------------------------------------------------------
(* Store and MyRecords: data *)

Names == {"Blue Train"}
DeployedRecords == [record : RawRecords, name : Names]
NodeLists == SeqsUpTo(DeployedRecords, MaxDeployments)

Users == {"0xA", "0xB"}

\* The message of a failed fetch, and of a failed batch of reads.
FetchFailureMessage == "Failed to fetch"
ReadFailureMessage == "execution reverted"

\* tokensOfOwner: what one contract answers.
TokenLists == {<<>>, <<2, 1>>}
ReadFailure == [status |-> "failure", result |-> <<>>]
ReadResult(tokenIds) == [status |-> "success", result |-> tokenIds]
ReadOutcomes == {ReadFailure} \cup {ReadResult(t) : t \in TokenLists}

\* sanitizedRecords: the entries with a valid address, normalized, in order.
RECURSIVE Sanitize(_)
Sanitize(records) ==
    IF records = <<>> THEN <<>>
    ELSE LET r == Head(records)
             addr == normalizeAddress(r.record)
         IN  (IF addr = None THEN <<>>
              ELSE <<[contractAddress |-> ValueOf(addr), name |-> r.name]>>)
             \o Sanitize(Tail(records))

\* An object used as a map: entries in insertion order, one per key.
HasKey(map, k) == \E i \in 1..Len(map) : map[i].key = k
Get(map, k) ==
    IF HasKey(map, k)
    THEN Some(map[CHOOSE i \in 1..Len(map) : map[i].key = k].tokenIds)
    ELSE None
Put(map, k, v) ==
    IF HasKey(map, k)
    THEN [i \in 1..Len(map) |-> IF map[i].key = k THEN [key |-> k, tokenIds |-> v]
                                ELSE map[i]]
    ELSE Append(map, [key |-> k, tokenIds |-> v])

\* One turn of the loop of effect 4.
MapEntry(map, rec, result) ==
    IF result.status = "success" /\ Len(result.result) > 0
    THEN Put(map, ToLowerCase(rec.contractAddress), result.result)
    ELSE map

\* A slip: the loop ends at the first failed read.
RECURSIVE BuildOwnedMapUntilFailure(_, _, _)
BuildOwnedMapUntilFailure(map, sanitized, results) ==
    IF sanitized = <<>> \/ results = <<>> \/ Head(results).status = "failure" THEN map
    ELSE BuildOwnedMapUntilFailure(MapEntry(map, Head(sanitized), Head(results)),
                                   Tail(sanitized), Tail(results))

\* The loop of effect 4, over sanitizedRecords[i] and readResults[i].
RECURSIVE BuildOwnedMap(_, _, _)
BuildOwnedMap(map, sanitized, results) ==
    IF sanitized = <<>> \/ results = <<>> THEN map
    ELSE BuildOwnedMap(MapEntry(map, Head(sanitized), Head(results)),
                       Tail(sanitized), Tail(results))

\* ownedItems: one item per owned token, contract by contract.
RECURSIVE OwnedItems(_, _)
OwnedItems(sanitized, map) ==
    IF sanitized = <<>> THEN <<>>
    ELSE LET rec == Head(sanitized)
             tokenIds == Get(map, ToLowerCase(rec.contractAddress))
         IN  (IF tokenIds = None THEN <<>>
              ELSE [i \in 1..Len(ValueOf(tokenIds)) |->
                       [contractAddress |-> rec.contractAddress,
                        name |-> rec.name,
                        tokenId |-> ValueOf(tokenIds)[i]]])
             \o OwnedItems(Tail(sanitized), map)

-----------------------------------------------------------------------------
(* Store *)

\* useQuery, whose cache outlives the component.
StoreIdle == [status |-> "idle", data |-> None]
StoreLoading == [status |-> "loading", data |-> None]
StoreSuccess(nodes) == [status |-> "success", data |-> Some(nodes)]
StoreError == [status |-> "error", data |-> None]

\* data?.data?.allRecordDeployeds.nodes ?? []
StoreRecords == IF storeQuery.data = None THEN <<>> ELSE ValueOf(storeQuery.data)

\* The render of Store: the two messages and one card per record.
StoreView ==
    [loading |-> storeQuery.status = "loading",
     error |-> storeQuery.status = "error",
     emptyMessage |-> FALSE,
     cards |-> [i \in 1..Len(StoreRecords) |->
                  [contractAddress |-> StoreRecords[i].record,
                   name |-> StoreRecords[i].name]]]

\* The Store page is opened; a first mount starts the indexer query.
MountStore ==
    /\ page = "store"
    /\ ~mounted
    /\ mounted' = TRUE
    /\ storeQuery' = IF storeQuery.status = "idle" THEN StoreLoading ELSE storeQuery
    /\ UNCHANGED <<page, indexerNodes, myVars>>
    /\ UNCHANGED <<fmtVars, ipfsVars, buyVars, viewVars>>

StoreFetchResolves ==
    /\ storeQuery.status = "loading"
    /\ storeQuery' = StoreSuccess(indexerNodes)
    /\ UNCHANGED <<page, mounted, indexerNodes, myVars>>
    /\ UNCHANGED <<fmtVars, ipfsVars, buyVars, viewVars>>

StoreFetchRejects ==
    /\ storeQuery.status = "loading"
    /\ storeQuery' = StoreError
    /\ UNCHANGED <<page, mounted, indexerNodes, myVars>>
    /\ UNCHANGED <<fmtVars, ipfsVars, buyVars, viewVars>>

-----------------------------------------------------------------------------
(* MyRecords *)

sanitizedRecords == Sanitize(deployedRecords)

\* useReadContracts: one tokensOfOwner call per sanitized record.
ReadCalls(records, user) ==
    [i \in 1..Len(Sanitize(records)) |->
        [address |-> Sanitize(records)[i].contractAddress, args |-> user]]

ReadsIdle == [status |-> "idle", data |-> None, error |-> None]
ReadsLoading == [status |-> "loading", data |-> None, error |-> None]
ReadsSuccess(results) == [status |-> "success", data |-> Some(results), error |-> None]
ReadsError(msg) == [status |-> "error", data |-> None, error |-> Some(msg)]

\* The query of a new set of calls: enabled when there is an account and a
\* sanitized record, and then loading.
ReadsFor(records, user) ==
    IF user # None /\ Len(Sanitize(records)) > 0 THEN ReadsLoading ELSE ReadsIdle

\* The query after a render: a change of the calls is a new query.
ReadsAfter(records, user) ==
    IF ReadCalls(records, user) = ReadCalls(deployedRecords, userAddress)
    THEN readContracts
    ELSE ReadsFor(records, user)

\* The contracts the batch calls.
CalledContracts ==
    {sanitizedRecords[i].contractAddress.id : i \in 1..Len(sanitizedRecords)}

readSuccess == readContracts.status = "success"
isReading == readContracts.status = "loading"
readError == readContracts.status = "error"

\* The dependencies of effect 4: readSuccess, readResults, sanitizedRecords.
MapEffectInputs(reads, records) ==
    <<reads.status = "success", reads.data, Sanitize(records)>>

\* Effect 4 is due after a render in which one of its dependencies changed.
MapEffectDue(reads, records) ==
    mapEffectPending
        \/ MapEffectInputs(reads, records) # MapEffectInputs(readContracts, deployedRecords)

ownedItems == OwnedItems(sanitizedRecords, ownedTokensByContract)

\* The render of MyRecords.
MyRecordsView ==
    LET loading == isFetching \/ isReading
        anyError == fetchError # None \/ readError
    IN  [loading |-> loading,
         error |-> anyError,
         errorMsg |-> IF fetchError # None THEN fetchError ELSE readContracts.error,
         emptyMessage |-> ~loading /\ ~anyError /\ Len(ownedItems) = 0,
         cards |-> ownedItems]

\* The state of a MyRecords that has just been mounted.
MyRecordsFresh ==
    /\ deployedRecords' = <<>>
    /\ isFetching' = FALSE
    /\ fetchError' = None
    /\ ownedTokensByContract' = <<>>
    /\ readContracts' = ReadsIdle

\* The home page is opened with a connected account.
MountMyRecords ==
    /\ page = "myrecords"
    /\ ~mounted
    /\ mounted' = TRUE
    /\ MyRecordsFresh
    /\ fetchEffectPending' = TRUE
    /\ mapEffectPending' = TRUE
    /\ UNCHANGED <<userAddress, liveFetch, cancelledFetches>>
    /\ UNCHANGED <<page, indexerNodes, storeVars>>
    /\ UNCHANGED <<fmtVars, ipfsVars, buyVars, viewVars>>

\* The page is left, or the wallet disconnected: the cleanup of effect 1
\* sets its flag, and the component's state is dropped.
Unmount ==
    /\ mounted
    /\ mounted' = FALSE
    /\ MyRecordsFresh
    /\ fetchEffectPending' = FALSE
    /\ mapEffectPending' = FALSE
    /\ liveFetch' = FALSE
    /\ cancelledFetches' = (cancelledFetches \/ liveFetch)
    /\ UNCHANGED <<userAddress, page, indexerNodes, storeVars>>
    /\ UNCHANGED <<fmtVars, ipfsVars, buyVars, viewVars>>

\* The wallet switches to the other account while the view stays mounted.
AccountSwitch ==
    /\ page = "myrecords"
    /\ mounted
    /\ \E u \in Users :
          /\ Some(u) # userAddress
          /\ userAddress' = Some(u)
          /\ readContracts' = ReadsAfter(deployedRecords, Some(u))
          /\ mapEffectPending' =
                MapEffectDue(ReadsAfter(deployedRecords, Some(u)), deployedRecords)
    /\ fetchEffectPending' = TRUE
    /\ UNCHANGED <<deployedRecords, isFetching, fetchError, ownedTokensByContract,
                   liveFetch, cancelledFetches>>
    /\ UNCHANGED <<page, mounted, indexerNodes, storeVars>>
    /\ UNCHANGED <<fmtVars, ipfsVars, buyVars, viewVars>>

\* Effect 1, on mount and when userAddress changed: the cleanup of the run
\* before sets its flag, and the new run starts its fetch.
RunFetchEffect ==
    /\ page = "myrecords"
    /\ mounted
    /\ fetchEffectPending
    /\ fetchEffectPending' = FALSE
    /\ cancelledFetches' = (cancelledFetches \/ liveFetch)
    /\ IF userAddress = None
       THEN /\ liveFetch' = FALSE
            /\ UNCHANGED <<isFetching, fetchError>>
       ELSE /\ liveFetch' = TRUE
            /\ isFetching' = TRUE
            /\ fetchError' = None
    /\ UNCHANGED <<userAddress, deployedRecords, ownedTokensByContract, readContracts,
                   mapEffectPending>>
    /\ UNCHANGED <<page, mounted, indexerNodes, storeVars>>
    /\ UNCHANGED <<fmtVars, ipfsVars, buyVars, viewVars>>

\* The fetch of the current run resolves: with the nodes, or with a body
\* that has none (nodes ?? []).
FetchResolves ==
    /\ liveFetch
    /\ \E nodes \in {indexerNodes, <<>>} :
          /\ deployedRecords' = nodes
          /\ readContracts' = ReadsAfter(nodes, userAddress)
          /\ mapEffectPending' = MapEffectDue(ReadsAfter(nodes, userAddress), nodes)
    /\ isFetching' = FALSE
    /\ liveFetch' = FALSE
    /\ UNCHANGED <<userAddress, fetchError, ownedTokensByContract, fetchEffectPending,
                   cancelledFetches>>
    /\ UNCHANGED <<page, mounted, indexerNodes, storeVars>>
    /\ UNCHANGED <<fmtVars, ipfsVars, buyVars, viewVars>>

\* The fetch of the current run, or the reading of its body, fails.
FetchRejects ==
    /\ liveFetch
    /\ fetchError' = Some(FetchFailureMessage)
    /\ isFetching' = FALSE
    /\ liveFetch' = FALSE
    /\ UNCHANGED <<userAddress, deployedRecords, ownedTokensByContract, fetchEffectPending,
                   cancelledFetches, readContracts, mapEffectPending>>
    /\ UNCHANGED <<page, mounted, indexerNodes, storeVars>>
    /\ UNCHANGED <<fmtVars, ipfsVars, buyVars, viewVars>>

\* The fetch of a torn-down run settles, either way: its flag is set, and
\* the run goes on to its end.
CancelledFetchSettles ==
    /\ cancelledFetches
    /\ cancelledFetches' \in BOOLEAN
    /\ \/ \E nodes \in {indexerNodes, <<>>} :
             LET written == WriteUnless(TRUE, nodes, deployedRecords)
             IN  /\ deployedRecords' = written
                 /\ readContracts' = ReadsAfter(written, userAddress)
                 /\ mapEffectPending' = MapEffectDue(ReadsAfter(written, userAddress), written)
                 /\ UNCHANGED fetchError
       \/ /\ fetchError' = WriteUnless(TRUE, Some(FetchFailureMessage), fetchError)
          /\ UNCHANGED <<deployedRecords, readContracts, mapEffectPending>>
    /\ isFetching' = WriteUnless(TRUE, FALSE, isFetching)
    /\ UNCHANGED <<userAddress, ownedTokensByContract, fetchEffectPending, liveFetch>>
    /\ UNCHANGED <<page, mounted, indexerNodes, storeVars>>
    /\ UNCHANGED <<fmtVars, ipfsVars, buyVars, viewVars>>

\* The batch of reads settles: each contract answers with its tokens or
\* fails, the same call with the same answer.
ReadsSucceed ==
    /\ readContracts.status = "loading"
    /\ \E chain \in [CalledContracts -> ReadOutcomes] :
          readContracts' =
              ReadsSuccess([i \in 1..Len(sanitizedRecords) |->
                               chain[sanitizedRecords[i].contractAddress.id]])
    /\ mapEffectPending' = TRUE
    /\ UNCHANGED <<userAddress, deployedRecords, isFetching, fetchError,
                   ownedTokensByContract, fetchEffectPending, liveFetch, cancelledFetches>>
    /\ UNCHANGED <<page, mounted, indexerNodes, storeVars>>
    /\ UNCHANGED <<fmtVars, ipfsVars, buyVars, viewVars>>

\* The batch of reads fails as a whole.
ReadsFail ==
    /\ readContracts.status = "loading"
    /\ readContracts' = ReadsError(ReadFailureMessage)
    /\ UNCHANGED <<userAddress, deployedRecords, isFetching, fetchError,
                   ownedTokensByContract, fetchEffectPending, liveFetch, cancelledFetches,
                   mapEffectPending>>
    /\ UNCHANGED <<page, mounted, indexerNodes, storeVars>>
    /\ UNCHANGED <<fmtVars, ipfsVars, buyVars, viewVars>>

\* Effect 4, after a render in which one of its dependencies changed.
RunMapEffect ==
    /\ page = "myrecords"
    /\ mounted
    /\ mapEffectPending
    /\ mapEffectPending' = FALSE
    /\ ownedTokensByContract' =
          IF ~readSuccess \/ readContracts.data = None THEN ownedTokensByContract
          ELSE BuildOwnedMap(<<>>, sanitizedRecords, ValueOf(readContracts.data))
    /\ UNCHANGED <<userAddress, deployedRecords, isFetching, fetchError,
                   fetchEffectPending, liveFetch, cancelledFetches, readContracts>>
    /\ UNCHANGED <<page, mounted, indexerNodes, storeVars>>
    /\ UNCHANGED <<fmtVars, ipfsVars, buyVars, viewVars>>

CollectionsStart ==
    /\ page \in {"store", "myrecords"}
    /\ mounted = FALSE
    /\ indexerNodes \in NodeLists
    /\ storeQuery = StoreIdle
    /\ userAddress = Some("0xA")
    /\ deployedRecords = <<>>
    /\ isFetching = FALSE
    /\ fetchError = None
    /\ ownedTokensByContract = <<>>
    /\ fetchEffectPending = FALSE
    /\ liveFetch = FALSE
    /\ cancelledFetches = FALSE
    /\ readContracts = ReadsIdle
    /\ mapEffectPending = FALSE

CollectionsNext ==
    \/ MountStore
    \/ StoreFetchResolves
    \/ StoreFetchRejects
    \/ MountMyRecords
    \/ Unmount
    \/ AccountSwitch
    \/ RunFetchEffect
    \/ FetchResolves
    \/ FetchRejects
    \/ CancelledFetchSettles
    \/ ReadsSucceed
    \/ ReadsFail
    \/ RunMapEffect

-----------------------------------------------------------------------------
(* RecordBox and useRecordImage *)

\* A tokenId prop: a bigint, a number, a string, or none at all.
NoTokenId == [type |-> "undefined", text |-> <<>>]
TokenIdProps ==
    {[type |-> "bigint", text |-> <<"1">>],
     [type |-> "number", text |-> <<"2">>],
     [type |-> "number", text |-> <<"1", ".", "5">>],
     [type |-> "string", text |-> <<"3">>],
     [type |-> "string", text |-> <<"x">>]}

\* toBigIntId: BigInt(id) throws for a number with a fraction (RangeError),
\* a string that is no integer literal (SyntaxError), undefined (TypeError).
toBigIntId(id) ==
    IF id.type = "bigint" THEN [ok |-> TRUE, value |-> StringToBigInt(id.text).value]
    ELSE IF id.type = "number"
    THEN IF \E i \in 1..Len(id.text) : id.text[i] = "."
         THEN [ok |-> FALSE, value |-> BigZero]
         ELSE StringToBigInt(id.text)
    ELSE IF id.type = "string" THEN StringToBigInt(id.text)
    ELSE [ok |-> FALSE, value |-> BigZero]

\* The props Store passes (no variant, no tokenId), those MyRecords passes,
\* and the other props the two variants allow.
RecordAddress == "0xa"
StoreCardProps(address) ==
    [variant |-> Undefined, tokenId |-> NoTokenId, contractAddress |-> address]
OwnedCardProps(address, id) ==
    [variant |-> "owned", tokenId |-> id, contractAddress |-> address]
MarketCardProps(address) ==
    [variant |-> "market", tokenId |-> NoTokenId, contractAddress |-> address]
CardUses ==
    {StoreCardProps(a) : a \in {RecordAddress, ""}}
        \cup {MarketCardProps(a) : a \in {RecordAddress, ""}}
        \cup {OwnedCardProps(RecordAddress, id) : id \in TokenIdProps}

\* readConfig: the function read and its arguments; computing it may throw.
readConfig(props) ==
    IF props.variant = "market"
    THEN [ok |-> TRUE, functionName |-> "previewImageURI", args |-> <<>>]
    ELSE [ok |-> toBigIntId(props.tokenId).ok,
          functionName |-> "tokenURI",
          args |-> <<toBigIntId(props.tokenId).value>>]

\* What the contract may return, and what a metadata document may hold.
CoverURI == IPFS_SCHEME \o <<"Q">>
OtherURI == IPFS_SCHEME \o <<"m">>
OnchainURIs == {<<>>, CoverURI, OtherURI}
\* The image field of a document: absent, empty, or a URI.
ImageFields == {None, Some(<<>>), Some(CoverURI)}

\* How the fetch of the metadata ends: rejected, a status that is not OK, a
\* body that is no JSON, or a document.
MetadataRejected == [kind |-> "rejected", image |-> None]
MetadataNotOk == [kind |-> "notOk", image |-> None]
MetadataNoJson == [kind |-> "noJson", image |-> None]
MetadataDocument(image) == [kind |-> "document", image |-> image]
MetadataOutcomes ==
    {MetadataRejected, MetadataNotOk, MetadataNoJson}
        \cup {MetadataDocument(image) : image \in ImageFields}

\* The image of a document, if the run gets that far without throwing.
ImageOf(outcome) ==
    IF outcome.kind = "document" /\ outcome.image # None /\ ValueOf(outcome.image) # <<>>
    THEN Some(resolveIpfsUrl(ValueOf(outcome.image), hostname))
    ELSE None

\* useReadContract
UriReadIdle == [status |-> "idle", data |-> None, error |-> None]
UriReadLoading == [status |-> "loading", data |-> None, error |-> None]
UriReadSuccess(uri) == [status |-> "success", data |-> Some(uri), error |-> None]
UriReadError == [status |-> "error", data |-> None, error |-> Some("read reverted")]

isUriLoading == uriRead.status = "loading"
uriError == uriRead.error
\* !onchainURI: undefined, or the empty string.
HasOnchainURI == uriRead.data # None /\ ValueOf(uriRead.data) # <<>>

\* The live run becomes a torn-down one.
TearDown(runs) == IF "live" \in runs THEN (runs \ {"live"}) \cup {"cancelled"} ELSE runs

\* The runs in flight once one of them has settled: of the torn-down ones
\* there may be more.
AfterSettling(runs, run) ==
    IF run = "live" THEN {runs \ {"live"}} ELSE {runs, runs \ {"cancelled"}}

\* What useRecordImage returns.
useRecordImage ==
    [imageUrl |-> imageUrl,
     isLoading |-> isUriLoading \/ isLoadingImage,
     error |-> IF uriError # None THEN uriError ELSE imageError]

\* The render of RecordBox: the placeholder, the fallback or the image.
CardView ==
    LET showFallback == useRecordImage.error # None \/ useRecordImage.imageUrl = None
    IN  IF useRecordImage.isLoading THEN [showing |-> "loading", src |-> None]
        ELSE IF showFallback THEN [showing |-> "fallback", src |-> None]
        ELSE [showing |-> "image", src |-> useRecordImage.imageUrl]

CardIsMounted == cardStage = "mounted"

\* The first render: readConfig is computed in the body of the hook, and
\* what it throws leaves the component.
RenderCard ==
    /\ cardStage = "unrendered"
    /\ IF readConfig(cardProps).ok
       THEN /\ cardStage' = "mounted"
            /\ uriRead' = IF cardProps.contractAddress # "" THEN UriReadLoading
                          ELSE UriReadIdle
            /\ imageEffectPending' = TRUE
       ELSE /\ cardStage' = "crashed"
            /\ UNCHANGED <<uriRead, imageEffectPending>>
    /\ UNCHANGED <<cardProps, imageUrl, isLoadingImage, imageError, imageRuns>>
    /\ UNCHANGED <<fmtVars, ipfsVars, buyVars, collectionVars, ownerVars>>

UriReadSucceeds ==
    /\ CardIsMounted
    /\ isUriLoading
    /\ \E uri \in OnchainURIs : uriRead' = UriReadSuccess(uri)
    /\ imageEffectPending' = TRUE
    /\ UNCHANGED <<cardProps, cardStage, imageUrl, isLoadingImage, imageError, imageRuns>>
    /\ UNCHANGED <<fmtVars, ipfsVars, buyVars, collectionVars, ownerVars>>

UriReadFails ==
    /\ CardIsMounted
    /\ isUriLoading
    /\ uriRead' = UriReadError
    /\ imageEffectPending' = TRUE
    /\ UNCHANGED <<cardProps, cardStage, imageUrl, isLoadingImage, imageError, imageRuns>>
    /\ UNCHANGED <<fmtVars, ipfsVars, buyVars, collectionVars, ownerVars>>

\* The wallet changes chain: the read has a new key and starts again.
UriReadRestarts ==
    /\ CardIsMounted
    /\ uriRead.status \in {"success", "error"}
    /\ uriRead' = UriReadLoading
    /\ imageEffectPending' = TRUE
    /\ UNCHANGED <<cardProps, cardStage, imageUrl, isLoadingImage, imageError, imageRuns>>
    /\ UNCHANGED <<fmtVars, ipfsVars, buyVars, collectionVars, ownerVars>>

\* Effect 2, after a render in which onchainURI or isUriLoading changed:
\* the cleanup of the run before, then the new run up to its first await.
RunImageEffect ==
    /\ CardIsMounted
    /\ imageEffectPending
    /\ imageEffectPending' = FALSE
    /\ IF ~HasOnchainURI \/ isUriLoading
       THEN /\ imageRuns' = TearDown(imageRuns)
            /\ UNCHANGED <<imageUrl, isLoadingImage, imageError>>
       ELSE IF cardProps.variant = "market"
       THEN /\ imageRuns' = TearDown(imageRuns)
            /\ imageUrl' = Some(resolveIpfsUrl(ValueOf(uriRead.data), hostname))
            /\ imageError' = None
            /\ isLoadingImage' = FALSE
       ELSE /\ imageRuns' = TearDown(imageRuns) \cup {"live"}
            /\ isLoadingImage' = TRUE
            /\ imageError' = None
            /\ UNCHANGED imageUrl
    /\ UNCHANGED <<cardProps, cardStage, uriRead>>
    /\ UNCHANGED <<fmtVars, ipfsVars, buyVars, collectionVars, ownerVars>>

\* The fetch of a run settles, and the run goes on to its end.
ImageFetchSettles ==
    /\ \E run \in imageRuns, outcome \in MetadataOutcomes :
          LET cancelled == run = "cancelled"
          IN  /\ imageRuns' \in AfterSettling(imageRuns, run)
              /\ imageUrl' = WriteUnless(cancelled, ImageOf(outcome), imageUrl)
              /\ imageError' =
                    IF ImageOf(outcome) # None THEN imageError
                    ELSE WriteUnless(cancelled, Some(outcome.kind), imageError)
              /\ isLoadingImage' = WriteUnless(cancelled, FALSE, isLoadingImage)
    /\ UNCHANGED <<cardProps, cardStage, uriRead, imageEffectPending>>
    /\ UNCHANGED <<fmtVars, ipfsVars, buyVars, collectionVars, ownerVars>>

\* The card leaves the page: the cleanup of effect 2 runs.
UnmountCard ==
    /\ CardIsMounted
    /\ cardStage' = "unmounted"
    /\ imageRuns' = TearDown(imageRuns)
    /\ imageEffectPending' = FALSE
    /\ UNCHANGED <<cardProps, uriRead, imageUrl, isLoadingImage, imageError>>
    /\ UNCHANGED <<fmtVars, ipfsVars, buyVars, collectionVars, ownerVars>>

CardStart ==
    /\ cardProps \in CardUses
    /\ cardStage = "unrendered"
    /\ uriRead = UriReadIdle
    /\ imageUrl = None
    /\ isLoadingImage = FALSE
    /\ imageError = None
    /\ imageEffectPending = FALSE
    /\ imageRuns = {}

CardNext ==
    \/ RenderCard
    \/ UriReadSucceeds
    \/ UriReadFails
    \/ UriReadRestarts
    \/ RunImageEffect
    \/ ImageFetchSettles
    \/ UnmountCard

-----------------------------------------------------------------------------
(* OwnerRecordPage *)

\* The tokenId of the route, as the text of the URL segment.
TokenIdParams == {<<"7">>, <<"x">>}
OwnerParams == [contractAddress : {RecordAddress}, tokenId : TokenIdParams]

\* A song: its track number, absent in some documents, and its title.
Tracks == {None, Some(1), Some(2)}
Titles == {"A"}
Songs == [track : Tracks, title : Titles]

\* A metadata document: its songs, if it has the field.
Documents == {[songs |-> None]} \cup {[songs |-> Some(l)] : l \in SeqsUpTo(Songs, MaxSongs)}

MetaRejected == [kind |-> "rejected", document |-> [songs |-> None]]
MetaNotOk == [kind |-> "notOk", document |-> [songs |-> None]]
MetaNoJson == [kind |-> "noJson", document |-> [songs |-> None]]
MetaDocument(doc) == [kind |-> "document", document |-> doc]
MetaOutcomes == {MetaRejected, MetaNotOk, MetaNoJson} \cup {MetaDocument(doc) : doc \in Documents}

\* e?.message || "Failed to load metadata"
MetaErrorMessage(outcome) == outcome.kind

\* (a, b) => (a.track ?? 0) - (b.track ?? 0)
TrackOf(song) == IF song.track = None THEN 0 ELSE ValueOf(song.track)
CompareDescending(a, b) == TrackOf(b) - TrackOf(a)
CompareTracks(a, b) == TrackOf(a) - TrackOf(b)

\* Array.prototype.sort, which is stable: x goes behind the elements that
\* do not sort after it.
RECURSIVE InsertSorted(_, _)
InsertSorted(sorted, x) ==
    IF sorted = <<>> THEN <<x>>
    ELSE IF CompareTracks(Head(sorted), x) <= 0
    THEN <<Head(sorted)>> \o InsertSorted(Tail(sorted), x)
    ELSE <<x>> \o sorted

RECURSIVE SortSongs(_)
SortSongs(songs) ==
    IF songs = <<>> THEN <<>>
    ELSE InsertSorted(SortSongs(SubSeq(songs, 1, Len(songs) - 1)), songs[Len(songs)])

TokenUriIdle == [status |-> "idle", data |-> None, error |-> None]
TokenUriLoading == [status |-> "loading", data |-> None, error |-> None]
TokenUriSuccess(uri) == [status |-> "success", data |-> Some(uri), error |-> None]
TokenUriError == [status |-> "error", data |-> None, error |-> Some("read reverted")]
TokenURIs == {<<>>, CoverURI}

isTokenUriLoading == tokenUriRead.status = "loading"
tokenUriError == tokenUriRead.error
HasTokenUri == tokenUriRead.data # None /\ ValueOf(tokenUriRead.data) # <<>>

\* metadata.songs, where !metadata?.songs?.length is false.
SongsOf(meta) ==
    IF meta = None \/ ValueOf(meta).songs = None THEN <<>>
    ELSE ValueOf(ValueOf(meta).songs)

\* A slip: the loading state follows the read alone.
OwnerViewOfReadAlone ==
    [loading |-> isTokenUriLoading,
     errorText |-> IF tokenUriError # None THEN tokenUriError ELSE metaError,
     noTracksMessage |-> SongsOf(metadata) = <<>>,
     tracks |-> SortSongs(SongsOf(metadata))]

\* The render of OwnerRecordPage: the loading state, the error text and the
\* tracks; sort leaves metadata.songs itself in the order rendered.
OwnerView ==
    [loading |-> isTokenUriLoading \/ isLoadingMeta,
     errorText |-> IF tokenUriError # None THEN tokenUriError ELSE metaError,
     noTracksMessage |-> SongsOf(metadata) = <<>>,
     tracks |-> SortSongs(SongsOf(metadata))]

OwnerIsMounted == ownerStage = "mounted"

\* The first render: toBigIntId(tokenIdParam) is an argument of the read,
\* and what it throws leaves the component.
RenderOwnerPage ==
    /\ ownerStage = "unrendered"
    /\ IF toBigIntId([type |-> "string", text |-> ownerParams.tokenId]).ok
       THEN /\ ownerStage' = "mounted"
            /\ tokenUriRead' = TokenUriLoading
            /\ metaEffectPending' = TRUE
       ELSE /\ ownerStage' = "crashed"
            /\ UNCHANGED <<tokenUriRead, metaEffectPending>>
    /\ UNCHANGED <<ownerParams, metadata, isLoadingMeta, metaError, metaRuns>>
    /\ UNCHANGED <<fmtVars, ipfsVars, buyVars, collectionVars, cardVars>>

TokenUriReadSucceeds ==
    /\ OwnerIsMounted
    /\ isTokenUriLoading
    /\ \E uri \in TokenURIs : tokenUriRead' = TokenUriSuccess(uri)
    /\ metaEffectPending' = TRUE
    /\ UNCHANGED <<ownerParams, ownerStage, metadata, isLoadingMeta, metaError, metaRuns>>
    /\ UNCHANGED <<fmtVars, ipfsVars, buyVars, collectionVars, cardVars>>

TokenUriReadFails ==
    /\ OwnerIsMounted
    /\ isTokenUriLoading
    /\ tokenUriRead' = TokenUriError
    /\ metaEffectPending' = TRUE
    /\ UNCHANGED <<ownerParams, ownerStage, metadata, isLoadingMeta, metaError, metaRuns>>
    /\ UNCHANGED <<fmtVars, ipfsVars, buyVars, collectionVars, cardVars>>

\* The wallet changes chain: the read has a new key and starts again.
TokenUriReadRestarts ==
    /\ OwnerIsMounted
    /\ tokenUriRead.status \in {"success", "error"}
    /\ tokenUriRead' = TokenUriLoading
    /\ metaEffectPending' = TRUE
    /\ UNCHANGED <<ownerParams, ownerStage, metadata, isLoadingMeta, metaError, metaRuns>>
    /\ UNCHANGED <<fmtVars, ipfsVars, buyVars, collectionVars, cardVars>>

\* The effect, after a render in which tokenUri or isTokenUriLoading
\* changed: the cleanup of the run before, then the new run up to its await.
RunMetaEffect ==
    /\ OwnerIsMounted
    /\ metaEffectPending
    /\ metaEffectPending' = FALSE
    /\ IF ~HasTokenUri \/ isTokenUriLoading
       THEN /\ metaRuns' = TearDown(metaRuns)
            /\ UNCHANGED <<isLoadingMeta, metaError>>
       ELSE /\ metaRuns' = TearDown(metaRuns) \cup {"live"}
            /\ isLoadingMeta' = TRUE
            /\ metaError' = None
    /\ UNCHANGED <<ownerParams, ownerStage, tokenUriRead, metadata>>
    /\ UNCHANGED <<fmtVars, ipfsVars, buyVars, collectionVars, cardVars>>

\* The fetch of a run settles with a document, and the run goes on to its end.
MetaFetchResolves ==
    /\ \E run \in metaRuns, doc \in Documents :
          LET cancelled == run = "cancelled"
          IN  /\ metaRuns' \in AfterSettling(metaRuns, run)
              /\ metadata' = WriteUnless(cancelled, Some(doc), metadata)
              /\ isLoadingMeta' = WriteUnless(cancelled, FALSE, isLoadingMeta)
    /\ UNCHANGED <<ownerParams, ownerStage, tokenUriRead, metaError, metaEffectPending>>
    /\ UNCHANGED <<fmtVars, ipfsVars, buyVars, collectionVars, cardVars>>

\* The fetch of a run is rejected, or answers with a status that is not OK
\* or a body that is no JSON.
MetaFetchFails ==
    /\ \E run \in metaRuns, outcome \in {MetaRejected, MetaNotOk, MetaNoJson} :
          LET cancelled == run = "cancelled"
          IN  /\ metaRuns' \in AfterSettling(metaRuns, run)
              /\ metaError' = WriteUnless(cancelled, Some(MetaErrorMessage(outcome)), metaError)
              /\ isLoadingMeta' = WriteUnless(cancelled, FALSE, isLoadingMeta)
    /\ UNCHANGED <<ownerParams, ownerStage, tokenUriRead, metadata, metaEffectPending>>
    /\ UNCHANGED <<fmtVars, ipfsVars, buyVars, collectionVars, cardVars>>

\* The page is left: the cleanup of the effect runs.
UnmountOwnerPage ==
    /\ OwnerIsMounted
    /\ ownerStage' = "unmounted"
    /\ metaRuns' = TearDown(metaRuns)
    /\ metaEffectPending' = FALSE
    /\ UNCHANGED <<ownerParams, tokenUriRead, metadata, isLoadingMeta, metaError>>
    /\ UNCHANGED <<fmtVars, ipfsVars, buyVars, collectionVars, cardVars>>

OwnerStart ==
    /\ ownerParams \in OwnerParams
    /\ ownerStage = "unrendered"
    /\ tokenUriRead = TokenUriIdle
    /\ metadata = None
    /\ isLoadingMeta = FALSE
    /\ metaError = None
    /\ metaEffectPending = FALSE
    /\ metaRuns = {}

OwnerNext ==
    \/ RenderOwnerPage
    \/ TokenUriReadSucceeds
    \/ TokenUriReadFails
    \/ TokenUriReadRestarts
    \/ RunMetaEffect
    \/ MetaFetchResolves
    \/ MetaFetchFails
    \/ UnmountOwnerPage

-----------------------------------------------------------------------------
(* Specifications *)

IdleFormat == priceStr = <<>> /\ formatted = None
IdleIpfs == ipfsUri = <<>> /\ hostname = "localhost" /\ resolved = None
IdleResolver == ipfsUri = <<>> /\ resolved = None
IdleBuy ==
    /\ recordEmitData = EmitLoading
    /\ contractRead = ReadLoading
    /\ isConnected = FALSE
    /\ isMintPending = FALSE
    /\ mintCalls = <<>>
IdleCollections ==
    /\ page = "none"
    /\ mounted = FALSE
    /\ indexerNodes = <<>>
    /\ storeQuery = StoreIdle
    /\ userAddress = None
    /\ deployedRecords = <<>>
    /\ isFetching = FALSE
    /\ fetchError = None
    /\ ownedTokensByContract = <<>>
    /\ fetchEffectPending = FALSE
    /\ liveFetch = FALSE
    /\ cancelledFetches = FALSE
    /\ readContracts = ReadsIdle
    /\ mapEffectPending = FALSE

IdleCard ==
    /\ cardProps = MarketCardProps(RecordAddress)
    /\ cardStage = "absent"
    /\ uriRead = UriReadIdle
    /\ imageUrl = None
    /\ isLoadingImage = FALSE
    /\ imageError = None
    /\ imageEffectPending = FALSE
    /\ imageRuns = {}

IdleOwner ==
    /\ ownerParams = [contractAddress |-> RecordAddress, tokenId |-> <<"7">>]
    /\ ownerStage = "absent"
    /\ tokenUriRead = TokenUriIdle
    /\ metadata = None
    /\ isLoadingMeta = FALSE
    /\ metaError = None
    /\ metaEffectPending = FALSE
    /\ metaRuns = {}

FormatInit ==
    /\ FormatStart
    /\ IdleIpfs
    /\ IdleBuy
    /\ IdleCollections
    /\ IdleCard
    /\ IdleOwner

IpfsInit ==
    /\ IpfsStart
    /\ IdleFormat
    /\ IdleBuy
    /\ IdleCollections
    /\ IdleCard
    /\ IdleOwner

BuyInit ==
    /\ BuyStart
    /\ IdleFormat
    /\ IdleResolver
    /\ IdleCollections
    /\ IdleCard
    /\ IdleOwner

CollectionsInit ==
    /\ CollectionsStart
    /\ IdleFormat
    /\ IdleIpfs
    /\ IdleBuy
    /\ IdleCard
    /\ IdleOwner

SpecFormat == FormatInit /\ [][FormatNext]_vars
SpecIpfs == IpfsInit /\ [][IpfsNext]_vars
SpecBuy == BuyInit /\ [][BuyNext]_vars
SpecCollections == CollectionsInit /\ [][CollectionsNext]_vars

CardInit ==
    /\ CardStart
    /\ IdleFormat
    /\ IdleIpfs
    /\ IdleBuy
    /\ IdleCollections
    /\ IdleOwner

SpecCard == CardInit /\ [][CardNext]_vars

OwnerInit ==
    /\ OwnerStart
    /\ IdleFormat
    /\ IdleIpfs
    /\ IdleBuy
    /\ IdleCollections
    /\ IdleCard

SpecOwner == OwnerInit /\ [][OwnerNext]_vars

\* One of the views is on the page, with its effects.
ViewsInit ==
    \/ CollectionsInit
    \/ CardInit
    \/ OwnerInit

ViewsNext ==
    \/ CollectionsNext
    \/ CardNext
    \/ OwnerNext

SpecViews == ViewsInit /\ [][ViewsNext]_vars

-----------------------------------------------------------------------------
(* Properties of formatETHPrice *)

\* The decimal numeral of a non-negative integer: one or more digits.
IsNumeral(s) == s # <<>> /\ \A i \in 1..Len(s) : IsDecDigit(s[i])

\* The numeral of an integer: a numeral with an optional sign.
IsIntegerNumeral(s) ==
    \/ IsNumeral(s)
    \/ s # <<>> /\ Head(s) \in {"+", "-"} /\ IsNumeral(Tail(s))

\* The numeral s written with at least 19 digits, so that it splits into an
\* integer part and the last 18 digits.
Padded19(s) == PadStart(s, 19, "0")

\* The decimal numeral of floor(n / 10^18), for n written as s.
WholeNumeral(s) ==
    LET w == StripLeading(SubSeq(Padded19(s), 1, Len(Padded19(s)) - 18), "0")
    IN  IF w = <<>> THEN <<"0">> ELSE w

\* n mod 10^18 in 18 zero-padded digits, for n written as s.
Fraction18(s) == SubSeq(Padded19(s), Len(Padded19(s)) - 17, Len(Padded19(s)))

RemainderIsZero(s) == Fraction18(s) = Repeat("0", 18)

FormatCalled == formatted # None
FormatValue == ValueOf(formatted).value

\* C1, as stated: for every numeral s of a non-negative integer n the result
\* is "{whole}.{trimmedFraction} ETH", with whole the numeral of
\* floor(n / 10^18) and trimmedFraction the 18 digits of n mod 10^18 stripped
\* of their trailing zeros.
C1_AsStated ==
    (FormatCalled /\ IsNumeral(priceStr)) =>
        FormatValue = WholeNumeral(priceStr) \o <<".">>
                      \o StripTrailing(Fraction18(priceStr), "0") \o ETH_UNIT

\* C1, amended: for every numeral s of a non-negative integer n the result
\* starts with the numeral of floor(n / 10^18) and a point, and when
\* n mod 10^18 is not zero it is exactly "{whole}.{trimmedFraction} ETH".
C1_FormatsNonZeroFraction ==
    (FormatCalled /\ IsNumeral(priceStr)) =>
        /\ StartsWith(FormatValue, WholeNumeral(priceStr) \o <<".">>)
        /\ ~RemainderIsZero(priceStr) =>
              FormatValue = WholeNumeral(priceStr) \o <<".">>
                            \o StripTrailing(Fraction18(priceStr), "0") \o ETH_UNIT

\* 19.00000000000000005 ETH: a fraction that needs both its leading zeros
\* and the stripping of a trailing zero.
C1_Witness ==
    /\ priceStr = <<"1", "9">> \o Repeat("0", 16) \o <<"5", "0">>
    /\ FormatCalled
    /\ FormatValue = <<"1", "9", ".">> \o Repeat("0", 16) \o <<"5">> \o ETH_UNIT

\* C2: for every numeral of a non-negative integer n with n mod 10^18 = 0 the
\* result is the numeral of n / 10^18, then the one fixed zero-fraction
\* marker ".0000", then the unit; the fraction is never empty.
C2_ZeroFractionPlaceholder ==
    (FormatCalled /\ IsNumeral(priceStr) /\ RemainderIsZero(priceStr)) =>
        FormatValue = WholeNumeral(priceStr) \o <<".", "0", "0", "0", "0">> \o ETH_UNIT

\* The mint price 1000000000000000000 is shown as 1.0000 ETH.
C2_Witness ==
    /\ priceStr = <<"1">> \o Repeat("0", 18)
    /\ FormatCalled
    /\ FormatValue = <<"1", ".", "0", "0", "0", "0", " ", "E", "T", "H">>

\* C3, as stated: no call raises, and for every input that is not the
\* numeral of an integer (letters, a decimal point, empty or blank text) the
\* call returns the input unchanged.
C3_NonNumericReturnedUnchanged ==
    FormatCalled =>
        /\ ~ValueOf(formatted).threw
        /\ ~IsIntegerNumeral(priceStr) => FormatValue = priceStr

-----------------------------------------------------------------------------
(* Properties of resolveIpfsUrl *)

ResolveCalled == resolved # None

\* C4: for every input "ipfs://X" the output is a gateway followed by X, X
\* kept intact, and the gateway is the local one exactly when the page
\* hostname is "localhost", otherwise the public one.
C4_ResolvesToGateway ==
    (ResolveCalled /\ StartsWith(ipfsUri, IPFS_SCHEME)) =>
        LET X == SubSeq(ipfsUri, Len(IPFS_SCHEME) + 1, Len(ipfsUri))
            out == ValueOf(resolved)
        IN  /\ EndsWith(out, X)
            /\ (hostname = "localhost") <=> (out = LOCAL_GATEWAY \o X)
            /\ (hostname # "localhost") <=> (out = PUBLIC_GATEWAY \o X)

\* An X that itself holds the scheme marker is kept intact.
C4_Witness ==
    /\ ipfsUri = IPFS_SCHEME \o IPFS_SCHEME \o <<"Q">>
    /\ hostname = "localhost"
    /\ resolved = Some(LOCAL_GATEWAY \o IPFS_SCHEME \o <<"Q">>)

-----------------------------------------------------------------------------
(* Properties of BuyRecordPage *)

PastLoading == ~recordEmitData.isLoading /\ ~contractRead.isLoading

\* The indexer node, read from the state: absent, or without one of its
\* three fields.
IndexerDataIncomplete ==
    \/ recordEmitData.data = None
    \/ \E f \in {"name", "artist", "symbol"} : ValueOf(recordEmitData.data)[f] = Undefined

\* The contract values, read from the state: the read errored, returned
\* nothing, or returned an empty preview URI.
ContractValuesIncomplete ==
    \/ contractRead.isError
    \/ contractRead.data = None
    \/ ValueOf(contractRead.data).previewImageURI = <<>>

PastGuards == PastLoading /\ ~IndexerDataIncomplete /\ ~ContractValuesIncomplete

\* C5: past the loading and guard clauses, a minted count at or above the
\* supply renders "All Records Minted" and no mint control, connected or
\* not; the connect message and the mint control appear only below supply.
C5_SoldOutFirst ==
    PastGuards =>
        LET data == ValueOf(contractRead.data)
        IN  /\ data.tokenCount >= data.supply =>
                /\ BuyView.area = Some("All Records Minted")
                /\ BuyView.button = None
            /\ (BuyView.area \in {Some("Please Connect A Wallet"), Some("Mint")}
                  \/ BuyView.button # None) =>
                data.tokenCount < data.supply

\* Everything minted, wallet not connected: the sold-out text, no button.
C5_Witness ==
    /\ PastGuards
    /\ ~isConnected
    /\ ValueOf(contractRead.data).tokenCount = ValueOf(contractRead.data).supply
    /\ ValueOf(contractRead.data).supply > 0
    /\ BuyView.area = Some("All Records Minted")
    /\ BuyView.button = None

ControlWhileWaiting ==
    (isMintPending /\ BuyView.button # None) =>
        /\ ValueOf(BuyView.button).disabled
        /\ ValueOf(BuyView.button).label = "Waiting for Signature..."

\* A step that submits a mint: it is for one unit, at the price the page
\* knows, and no signature is being awaited.
SubmissionStep ==
    (mintCalls' # mintCalls) =>
        /\ ~isMintPending
        /\ isMintPending'
        /\ Len(mintCalls') = Len(mintCalls) + 1
        /\ SubSeq(mintCalls', 1, Len(mintCalls)) = mintCalls
        /\ mintCalls'[Len(mintCalls')].quantity = 1
        /\ contractRead.data # None
        /\ mintCalls'[Len(mintCalls')].value = Some(ValueOf(contractRead.data).mintPrice)

\* C7: every mint submission is for exactly one unit with the price the page
\* currently knows as its value, and while a submission awaits the user's
\* signature the mint control is disabled and relabelled, so that no second
\* submission starts before the wait ends.
C7_MintOnceAtKnownPrice == []ControlWhileWaiting /\ [][SubmissionStep]_vars

\* A second submission was made after the first wait ended, and its own
\* signature is awaited with the button shown disabled.
C7_Witness ==
    /\ Len(mintCalls) = 2
    /\ isMintPending
    /\ BuyView.button # None
    /\ ValueOf(BuyView.button).disabled
    /\ mintCalls[2].value = Some(ValueOf(contractRead.data).mintPrice)
    /\ mintCalls[1].value # mintCalls[2].value

-----------------------------------------------------------------------------
(* My Records and Store: properties *)

MyRecordsShown == page = "myrecords" /\ mounted
StoreShown == page = "store" /\ mounted

\* A record field that is no address with a valid checksum: absent, blank,
\* malformed, or in mixed case with a wrong EIP-55 checksum.
FailsValidation(raw) ==
    \/ raw.form \in {"null", "empty"}
    \/ ~IsAddressStrict(TrimAddress(raw))

\* The deployments the claim lets through, as normalized addresses, in order.
RECURSIVE ValidatedAddresses(_)
ValidatedAddresses(records) ==
    IF records = <<>> THEN <<>>
    ELSE (IF FailsValidation(Head(records).record) THEN <<>>
          ELSE <<Address(Head(records).record.id, "checksummed")>>)
         \o ValidatedAddresses(Tail(records))

\* The addresses of the reads the batch has issued.
IssuedReadAddresses ==
    IF readContracts.status = "idle" THEN <<>>
    ELSE [i \in 1..Len(ReadCalls(deployedRecords, userAddress)) |->
             ReadCalls(deployedRecords, userAddress)[i].address]

Range(seq) == {seq[i] : i \in 1..Len(seq)}

\* C8 (as stated): in My Records, a deployment whose record address fails
\* address/checksum validation gets no tokensOfOwner read and no card: the
\* reads issued are those of the deployments that pass, one each and in
\* order, every card belongs to one of them, and every address read or
\* rendered is a normalized address.
C8_InvalidAddressesExcluded ==
    MyRecordsShown =>
        /\ readContracts.status # "idle" =>
              IssuedReadAddresses = ValidatedAddresses(deployedRecords)
        /\ \A i \in 1..Len(MyRecordsView.cards) :
              MyRecordsView.cards[i].contractAddress
                  \in Range(ValidatedAddresses(deployedRecords))
        /\ \A addr \in Range(IssuedReadAddresses) : addr.form = "checksummed"

\* The flattening of the per-contract results: for each sanitized deployment
\* in order, one item per token id its read returned, none if its read failed.
RECURSIVE FlattenOwned(_, _)
FlattenOwned(sanitized, results) ==
    IF sanitized = <<>> \/ results = <<>> THEN <<>>
    ELSE (IF Head(results).status = "success"
          THEN [j \in 1..Len(Head(results).result) |->
                   [contractAddress |-> Head(sanitized).contractAddress,
                    name |-> Head(sanitized).name,
                    tokenId |-> Head(results).result[j]]]
          ELSE <<>>)
         \o FlattenOwned(Tail(sanitized), Tail(results))

\* The batch has succeeded and effect 4 has stored its map.
OwnershipStored == MyRecordsShown /\ readSuccess /\ ~mapEffectPending

C10_LoadingErrorEmpty ==
    /\ StoreShown =>
          /\ storeQuery.status = "loading" => StoreView.loading
          /\ storeQuery.status = "error" => StoreView.error
          /\ (storeQuery.status = "success" /\ StoreRecords = <<>>) =>
                StoreView.emptyMessage
    /\ MyRecordsShown =>
          /\ (liveFetch \/ readContracts.status = "loading") => MyRecordsView.loading
          /\ (fetchError # None \/ readContracts.status = "error") =>
                MyRecordsView.error
          /\ (/\ ~liveFetch
              /\ fetchError = None
              /\ ~fetchEffectPending
              /\ ~mapEffectPending
              /\ readContracts.status \in {"idle", "success"}
              /\ MyRecordsView.cards = <<>>) => MyRecordsView.emptyMessage

-----------------------------------------------------------------------------
(* RecordBox: properties *)

\* The card as Store and as MyRecords render it.
UsedByStore == cardProps.variant = Undefined /\ cardProps.tokenId = NoTokenId
UsedByMyRecords == cardProps.variant = "owned" /\ cardProps.tokenId.type = "bigint"

\* A failure of the read or of the resolution is on record.
ImageFailureRecorded == uriError # None \/ imageError # None

\* Nothing of the card is still to happen: the read has settled, effect 2
\* has run, and no run of it is waiting for its fetch.
CardAtRest ==
    /\ CardIsMounted
    /\ ~isUriLoading
    /\ ~imageEffectPending
    /\ "live" \notin imageRuns

\* C11 (as stated): a card rendered as Store or MyRecords render it throws
\* nothing out of the component, and a card of either variant whose URI read
\* or metadata resolution has failed ends up showing the static fallback
\* image.
C11_FailureShowsFallback ==
    /\ (UsedByStore \/ UsedByMyRecords) => cardStage # "crashed"
    /\ (CardAtRest /\ ImageFailureRecorded) => CardView.showing = "fallback"

\* The image is still being resolved: the read is pending, or it has
\* returned a URI and effect 2 has not finished with it.
ImageBeingResolved ==
    \/ isUriLoading
    \/ HasOnchainURI /\ (imageEffectPending \/ "live" \in imageRuns)

\* C12 (as stated): in every rendered state in which the image is still
\* being resolved the card shows the loading placeholder, never the fallback
\* image or an image resolved before.
C12_PlaceholderWhileResolving ==
    (CardIsMounted /\ ImageBeingResolved) => CardView.showing = "loading"

-----------------------------------------------------------------------------
(* OwnerRecordPage: properties *)

\* How often a song occurs in a list.
Occurrences(list, song) == Cardinality({i \in 1..Len(list) : list[i] = song})

\* The songs that carry a track number stand in ascending order of it.
AscendingTracks(list) ==
    \A i, j \in 1..Len(list) :
        (i < j /\ list[i].track # None /\ list[j].track # None) =>
            ValueOf(list[i].track) <= ValueOf(list[j].track)

\* C13: on the Owner page, for every metadata document with a non-empty
\* songs list, the rendered track list holds the songs of that list, each as
\* often as the list has it, in ascending order of track number, whatever
\* the order of the document.
C13_TracksAscending ==
    (OwnerIsMounted /\ SongsOf(metadata) # <<>>) =>
        /\ Len(OwnerView.tracks) = Len(SongsOf(metadata))
        /\ \A song \in Songs :
              Occurrences(OwnerView.tracks, song) = Occurrences(SongsOf(metadata), song)
        /\ AscendingTracks(OwnerView.tracks)
        /\ ~OwnerView.noTracksMessage

\* A document whose songs come in descending order is rendered in ascending
\* order.
C13_Witness ==
    /\ OwnerIsMounted
    /\ Len(SongsOf(metadata)) >= 2
    /\ SongsOf(metadata)[1].track = Some(2)
    /\ SongsOf(metadata)[2].track = Some(1)
    /\ OwnerView.tracks[1].track = Some(1)
    /\ OwnerView.tracks[Len(OwnerView.tracks)].track = Some(2)

\* The read, or the fetch of the current run, is outstanding.
OwnerWorkOutstanding == isTokenUriLoading \/ "live" \in metaRuns

\* While work is outstanding the loading state shows, and a failed read
\* shows its message.
OwnerLoadingAndReadError ==
    OwnerIsMounted =>
        /\ OwnerWorkOutstanding => OwnerView.loading
        /\ tokenUriRead.status = "error" => OwnerView.errorText = tokenUriRead.error

\* The fetch of the current run fails: the page then shows an error text,
\* which is the message of that failure unless a failed read has its own.
OwnerFetchFailureStep ==
    (OwnerIsMounted /\ MetaFetchFails /\ "live" \in metaRuns /\ "live" \notin metaRuns') =>
        /\ OwnerView'.errorText # None
        /\ tokenUriError' = None =>
              /\ OwnerView'.errorText = metaError'
              /\ ValueOf(metaError') \in {"rejected", "notOk", "noJson"}

\* C14: on the Owner page, in every rendered state where the tokenURI read
\* or the metadata fetch is outstanding the page shows its loading state,
\* and once the read or the fetch has failed the page shows the error text
\* of the failure.
C14_LoadingAndErrorText ==
    []OwnerLoadingAndReadError /\ [][OwnerFetchFailureStep]_vars

\* The read returned a URI, the fetch answered with a status that is not
\* OK, and the page shows that failure and is no longer loading.
C14_Witness ==
    /\ OwnerIsMounted
    /\ HasTokenUri
    /\ metaRuns = {}
    /\ metaError = Some("notOk")
    /\ OwnerView.errorText = Some("notOk")
    /\ ~OwnerView.loading

-----------------------------------------------------------------------------
(* Effects: properties *)

\* A step in which the fetch of a torn-down run of the card settles: the
\* current run, if there is one, stays in flight.
TornDownImageRunSettles ==
    ImageFetchSettles /\ ("live" \in imageRuns <=> "live" \in imageRuns')

\* The same for the Owner page.
TornDownMetaRunSettles ==
    (MetaFetchResolves \/ MetaFetchFails) /\ ("live" \in metaRuns <=> "live" \in metaRuns')

\* The completion of a torn-down run updates no state of its view.
StaleWriteSuppressed ==
    /\ TornDownImageRunSettles => UNCHANGED <<imageUrl, imageError, isLoadingImage>>
    /\ TornDownMetaRunSettles => UNCHANGED <<metadata, metaError, isLoadingMeta>>
    /\ CancelledFetchSettles =>
          UNCHANGED <<deployedRecords, fetchError, isFetching, readContracts,
                      ownedTokensByContract>>

\* C15: for the image resolution of the Record card, the metadata fetch of
\* the Owner page and the deployments fetch of My Records, once a run of the
\* effect has been torn down (unmount, or a change of its dependencies) the
\* completion of its network call, by success or by failure and before or
\* after that of a newer run, performs no state update.
C15_StaleWriteSuppressed == [][StaleWriteSuppressed]_vars

\* In My Records the account has changed to B, the run started for B has
\* stored its deployments, and the fetch of the run torn down by the change
\* is still in flight.
C15_Witness ==
    /\ MyRecordsShown
    /\ userAddress = Some("0xB")
    /\ cancelledFetches
    /\ ~liveFetch
    /\ ~isFetching
    /\ ~fetchEffectPending
    /\ deployedRecords # <<>>

\* C16 (as stated): whatever the input from the route or the indexer, no
\* error leaves the render or an effect of a view: the Owner page never
\* throws while rendering, and neither does a card as Store and My Records
\* render it.
C16_NoErrorEscapes ==
    /\ ownerStage # "crashed"
    /\ (UsedByStore \/ UsedByMyRecords) => cardStage # "crashed"

\* C17 (as stated): in My Records the cards listed are always those of the
\* ownership reads made for the account now connected: after a change of
\* account nothing that was reported for the account before is listed.
C17_CardsOfCurrentAccount ==
    (MyRecordsShown /\ MyRecordsView.cards # <<>>) =>
        /\ readSuccess
        /\ MyRecordsView.cards =
              FlattenOwned(sanitizedRecords, ValueOf(readContracts.data))

\* The deployments fetch has completed without error, and so have the
\* ownership reads, if any were needed.
OwnershipKnown ==
    /\ ~fetchEffectPending
    /\ ~liveFetch
    /\ fetchError = None
    /\ readContracts.status \in {"idle", "success"}

\* C18 (as stated): in My Records the message of the empty collection is
\* rendered only once the deployments fetch and the ownership reads have
\* completed without error and the reads report no owned token; it is never
\* shown while a completed read reports an owned token, not even between
\* the read succeeding and effect 4 storing its map.
C18_EmptyMessageOnlyWhenEmpty ==
    (MyRecordsShown /\ MyRecordsView.emptyMessage) =>
        /\ OwnershipKnown
        /\ readSuccess =>
              FlattenOwned(sanitizedRecords, ValueOf(readContracts.data)) = <<>>

\* The Owner page and My Records at rest, as CardAtRest is for the card.
OwnerAtRest ==
    /\ OwnerIsMounted
    /\ ~isTokenUriLoading
    /\ ~metaEffectPending
    /\ "live" \notin metaRuns

MyRecordsAtRest ==
    /\ MyRecordsShown
    /\ ~isReading
    /\ ~fetchEffectPending
    /\ ~liveFetch

\* C19 (as stated): for the Record card, the Owner page and My Records,
\* once the on-chain read has settled and no fetch of the current run of
\* the effect is in flight, the loading flag of the effect is false: a run
\* torn down while its fetch was in flight leaves no view loading for good.
C19_LoadingFlagReleased ==
    /\ CardAtRest => ~isLoadingImage
    /\ OwnerAtRest => ~isLoadingMeta
    /\ MyRecordsAtRest => ~isFetching

====
